---- MODULE Spec2Model ----
(***************************************************************************)
(* Model of drivecom/phison_device.py: the Phison vendor command registry  *)
(* (class PhisonCmd), the big-endian field codec (word_to_data,            *)
(* word_from_data), the mode derivation (mode_from_vendor_info) and the    *)
(* PhisonDevice operations, as a state machine that records every command  *)
(* handed to execute_scsi_command.                                         *)
(*                                                                         *)
(* Python sequences are 0-based; the sequences here are 1-based, so an     *)
(* offset o of the source is position o+1 of the model.  Bytes are written *)
(* in decimal, with the source's hexadecimal value in the comment.         *)
(***************************************************************************)
EXTENDS Integers, Sequences, FiniteSets, TLC

VARIABLES
    reg,         \* the class attributes of PhisonCmd: name -> [bytes, len]
    op,          \* the PhisonDevice method the caller invoked ("none" before any)
    pc,          \* position inside the running method; "idle" between calls
    outcome,     \* "none", "running", "returned" or the exception raised
    log,         \* commands and sleeps of the current call, in dispatch order
    img,         \* transfer_data: len(data) of the last call (0 if none)
    header,      \* transfer_data: argument header of the last call
    body,        \* transfer_data: argument body of the last call
    data_size,   \* transfer_data: local data_size
    address,     \* transfer_data / dump_firmware: local address
    chunk_size,  \* transfer_data: local chunk_size
    ret,         \* where transfer_data returns to
    vinfo,       \* the last vendor info the device answered
    mode,        \* the mode derived from it
    burner,      \* send_firmware: burner_filename is not None
    fw,          \* send_firmware: length of the firmware file
    rfBase,      \* Len(log) when _run_firmware was entered, -1 before
    nops,        \* number of calls made so far
    args,        \* arguments of the call of a memory method (<<>> otherwise)
    result,      \* get_num_lbas: the value returned (<<>> otherwise)
    prev,        \* the method called before the current one
    buf          \* dump_firmware: the bytearray data, as a set of segments

vars == <<reg, op, pc, outcome, log, img, header, body, data_size, address,
          chunk_size, ret, vinfo, mode, burner, fw, rfBase, nops, args, result,
          prev, buf>>

(***************************************************************************)
(* Bounds of the model.                                                    *)
(***************************************************************************)
MaxOps == 2        \* calls per behaviour
MaxChunks == 2     \* whole 0x8000-byte chunks in the largest image body

(***************************************************************************)
(* Program constants.                                                      *)
(***************************************************************************)
WAIT_TIME_MS == 2000
BLOCK == 512            \* 0x200
CHUNK == 32768          \* 0x8000
RESERVED == 1024        \* the 1024 of data_size = len(data) - 1024
HEADER_OK == 85         \* 0x55
BODY_OK == 165          \* 0xA5
None == 0 - 1           \* Python's None, a value that equals no mode number
XRAM_SIZE == 61440      \* 0xF000
DUMP_SIZE == 205824     \* 0x32400
DUMP_STRIDE == 64       \* 0x40

mode_names == <<"BootMode", "Burner", "HardwareVerify", "Firmware">>

(***************************************************************************)
(* class PhisonCmd.  A descriptor is (command bytes, expected length).     *)
(***************************************************************************)
Zeros(n) == [i \in 1..n |-> 0]

GET_VENDOR_INFO == [bytes |-> <<6, 5, 0, 0, 0, 0, 0, 0, 1>>, len |-> 528]
GET_CHIP_ID == [bytes |-> <<6, 86>> \o Zeros(10), len |-> 512]
GET_NUM_LBAS == [bytes |-> <<37>> \o Zeros(11), len |-> 8]
JUMP_TO_PRAM == [bytes |-> <<6, 179>> \o Zeros(14), len |-> 0]
JUMP_TO_BOOTMODE == [bytes |-> <<6, 191>> \o Zeros(14), len |-> 0]
LOAD_HEADER == [bytes |-> <<6, 177, 3, 0, 0, 0, 0, 0, 1>> \o Zeros(7), len |-> 0]
LOAD_BODY == [bytes |-> <<6, 177, 2, 170, 170, 0, 0, 204, 204>> \o Zeros(7), len |-> 0]
GET_STATUS == [bytes |-> <<6, 176, 0, 0, 8>> \o Zeros(11), len |-> 8]
READ_MEMORY == [bytes |-> <<6, 5, 82, 65, 170, 170>> \o Zeros(10), len |-> 528]
WRITE_MEMORY == [bytes |-> <<6, 12, 0, 80, 104, 73, 170, 170, 221>> \o Zeros(7), len |-> 0]
READ_BODY == [bytes |-> <<6, 178, 16, 170, 170, 0, 0, 204, 204>> \o Zeros(7), len |-> 0]
SEND_PASSWORD == [bytes |-> <<14, 0, 1, 85, 170>> \o Zeros(11), len |-> 0]
SCARY_B7 == [bytes |-> <<6, 183>> \o Zeros(7), len |-> 0]
FIRMWARE_UPDATE == [bytes |-> <<6, 238>> \o Zeros(7), len |-> 72]
READ_XRAM == [bytes |-> <<6, 6, 170, 170>> \o Zeros(12), len |-> 1]
WRITE_XRAM == [bytes |-> <<6, 7, 170, 170, 238, 0, 0>>, len |-> 1]
READ_IRAM == [bytes |-> <<6, 8, 170, 0, 0, 0, 0>>, len |-> 1]
WRITE_IRAM == [bytes |-> <<6, 9, 170, 238, 0, 0>>, len |-> 1]

PhisonCmd ==
    [ GET_VENDOR_INFO |-> GET_VENDOR_INFO, GET_CHIP_ID |-> GET_CHIP_ID,
      GET_NUM_LBAS |-> GET_NUM_LBAS, JUMP_TO_PRAM |-> JUMP_TO_PRAM,
      JUMP_TO_BOOTMODE |-> JUMP_TO_BOOTMODE, LOAD_HEADER |-> LOAD_HEADER,
      LOAD_BODY |-> LOAD_BODY, GET_STATUS |-> GET_STATUS,
      READ_MEMORY |-> READ_MEMORY, WRITE_MEMORY |-> WRITE_MEMORY,
      READ_BODY |-> READ_BODY, SEND_PASSWORD |-> SEND_PASSWORD,
      SCARY_B7 |-> SCARY_B7, FIRMWARE_UPDATE |-> FIRMWARE_UPDATE,
      READ_XRAM |-> READ_XRAM, WRITE_XRAM |-> WRITE_XRAM,
      READ_IRAM |-> READ_IRAM, WRITE_IRAM |-> WRITE_IRAM ]

CmdNames == DOMAIN PhisonCmd

\* "static commands are tuples, commands with variables are lists": the
\* descriptors whose command bytes are a Python list (item assignment works).
ListTemplates == {"LOAD_HEADER", "LOAD_BODY", "READ_MEMORY", "WRITE_MEMORY",
                  "READ_BODY", "READ_XRAM", "WRITE_XRAM", "READ_IRAM",
                  "WRITE_IRAM"}

(***************************************************************************)
(* The field codec.                                                        *)
(***************************************************************************)
\* data[offset] = value, for a list
SetByte(data, offset, value) == [data EXCEPT ![offset + 1] = value]

\* the word written one byte too far
word_to_data_shifted(data, offset, value) ==
    SetByte(SetByte(data, offset + 1, (value \div 256) % 256),
            offset + 2, value % 256)

\* data[offset] = (value >> 8) & 0xFF ; data[offset+1] = value & 0xFF
word_to_data(data, offset, value) ==
    SetByte(SetByte(data, offset, (value \div 256) % 256),
            offset + 1, value % 256)

\* the word read low byte first
word_from_data_low_first(data, offset) == data[offset + 2] * 256 + data[offset + 1]

\* ret = data[offset] << 8 ; ret += data[offset+1]
word_from_data(data, offset) == data[offset + 1] * 256 + data[offset + 2]

\* PhisonCmd.<name>[0][offset] = value
PatchByte(r, name, offset, value) ==
    [r EXCEPT ![name].bytes = SetByte(@, offset, value)]

\* word_to_data(PhisonCmd.<name>[0], offset, value)
PatchWord(r, name, offset, value) ==
    [r EXCEPT ![name].bytes = word_to_data(@, offset, value)]

\* PhisonCmd.<name>[1] = value
PatchLen(r, name, value) == [r EXCEPT ![name].len = value]

(***************************************************************************)
(* The transport: execute_scsi_command(device, cmd, data_out, length).     *)
(* A log entry is the command as dispatched: the descriptor's name, its    *)
(* bytes and expected length at the time of the call, the slice of the     *)
(* image sent as data_out (<<from, to>>, <<>> for None) and what the       *)
(* caller reads of the answer: byte 0 of a status, the eight bytes of the  *)
(* answer to GET_NUM_LBAS (0 elsewhere).                                   *)
(***************************************************************************)
Entry(r, name, out, res) ==
    [name |-> name, cmd |-> r[name].bytes, len |-> r[name].len,
     out |-> out, res |-> res]

\* time.sleep(WAIT_TIME_MS/1000.0)
Sleep == [name |-> "sleep", cmd |-> <<>>, len |-> WAIT_TIME_MS,
          out |-> <<>>, res |-> 0]

Min(a, b) == IF a < b THEN a ELSE b
Max(a, b) == IF a < b THEN b ELSE a

\* data[lo:hi] of a buffer of n bytes, as the pair of its bounds
Slice(n, lo, hi) ==
    LET l == Min(Max(lo, 0), n)
        h == Min(Max(hi, 0), n)
    IN  <<l, Max(l, h)>>

(***************************************************************************)
(* Inputs.                                                                 *)
(***************************************************************************)
\* lengths of image files: shorter than header + footer, and bodies of up to
\* MaxChunks whole chunks plus nothing, half a block or one block
ImageLens ==
    {0, 1000} \cup
    {RESERVED + k * CHUNK + r : k \in 0..MaxChunks, r \in {0, 256, 512}}

\* lengths of the firmware file of send_firmware: empty, and a body of k
\* full chunks and one block
FirmwareLens == {0} \cup {RESERVED + k * CHUNK + BLOCK : k \in 0..MaxChunks}

\* byte 0 of the answer to GET_STATUS
StatusBytes == {HEADER_OK, BODY_OK, 0}

Selectors == {<<3, 2>>, <<1, 0>>}

\* arguments of the memory methods: addresses and block counts, byte values
WordArgs == {4660, 65535}      \* 0x1234, 0xFFFF
ByteArgs == {90, 511}          \* 0x5A, 0x1FF
NandCounts == WordArgs \cup {65539}   \* and 0x10003, wider than 16 bits

\* answers to GET_NUM_LBAS: eight bytes, the first four being the count
LbaHeads == {<<0, 0, 0, 0>>, <<0, 0, 0, 255>>, <<0, 0, 255, 255>>,
             <<18, 52, 86, 120>>, <<255, 255, 255, 255>>}
LbaAnswers ==
    {h \o t : h \in LbaHeads, t \in {<<0, 0, 0, 0>>, <<255, 255, 255, 255>>}}

\* ord("V"), ord("R")
VR == <<86, 82>>

TagPRAM == <<32, 80, 82, 65, 77, 32, 32, 32>>      \* " PRAM   "
TagFWBURN == <<32, 70, 87, 32, 66, 85, 82, 78>>    \* " FW BURN"
TagHVTEST == <<32, 72, 86, 32, 84, 69, 83, 84>>    \* " HV TEST"

\* vendor infos: bytes 0x17A-0x17B and bytes 0xA0-0xA7
VendorInfos ==
    [ marker : {VR, <<86, 0>>, <<0, 82>>},
      tag : {TagPRAM, TagFWBURN, TagHVTEST,
             <<80, 82, 65, 77, 32, 32, 32, 32>>,      \* "PRAM    "
             <<70, 73, 82, 77, 87, 65, 82, 69>>} ]    \* "FIRMWARE"

\* the vendor infos answered to the mode query of send_firmware: one for
\* each of the modes 0, 1, 2, 3 and one without the marker
QueryInfos ==
    {[marker |-> VR, tag |-> t] :
        t \in {TagPRAM, TagFWBURN, TagHVTEST, <<70, 73, 82, 77, 87, 65, 82, 69>>}}
    \cup {[marker |-> <<0, 82>>, tag |-> TagFWBURN]}

NoInfo == [marker |-> <<0, 0>>, tag |-> <<0, 0, 0, 0, 0, 0, 0, 0>>]

(***************************************************************************)
(* mode_from_vendor_info                                                   *)
(***************************************************************************)
\* the tuple (" PRAM   ", " FW BURN", " HV TEST") of line 361
ModeTags == <<TagPRAM, TagFWBURN, TagHVTEST>>

\* mode_string is the join of chr(i) over the eight tag bytes; chr is
\* one-to-one on bytes, so two such strings are equal exactly when their byte
\* sequences are.  ModeTags.index(mode_string) is the 0-based position of the
\* first equal element; ValueError (no such element) gives mode = 3.
TagIndex(s) ==
    LET hits == {i \in 1..Len(ModeTags) : ModeTags[i] = s}
    IN  IF hits = {} THEN 3
        ELSE (CHOOSE i \in hits : \A j \in hits : i <= j) - 1

\* the derivation without the test of the "VR" marker
mode_from_vendor_info_unchecked(vendor_info) == TagIndex(vendor_info.tag)

mode_from_vendor_info(vendor_info) ==
    IF vendor_info.marker[1] = 86 /\ vendor_info.marker[2] = 82
    THEN TagIndex(vendor_info.tag)
    ELSE None

(***************************************************************************)
(* The bytearray of dump_firmware.  The buffer is kept as the set of its   *)
(* segments: bytes lo..hi-1 hold bytes base.. of a source, which is the    *)
(* zero fill of bytearray(n) ("zero"), the header or footer tuple, or the  *)
(* answer to the idx-th read ("res").                                      *)
(***************************************************************************)
DUMP_HEADER == <<66, 116, 80, 114, 97, 109, 67, 100, 0, 0, 0, 0, 0, 0, 0, 0,
                 20, 16, 11, 24>>
DUMP_FOOTER == <<116, 104, 105, 115, 32, 105, 115, 32, 109, 112, 32, 109, 97,
                 114, 107, 0, 3, 1, 0, 16, 1, 4, 16, 66>>

NoBuffer == {}

\* bytearray(n)
bytearray(n) == {[lo |-> 0, hi |-> n, src |-> "zero", idx |-> 0, base |-> 0]}

\* len(data)
BufLen(b) ==
    IF b = {} THEN 0 ELSE CHOOSE n \in {s.hi : s \in b} : \A s \in b : s.hi <= n

\* insert_data(data, offset, value_list): data[offset+i] = value_list[i] for
\* i in xrange(len(value_list)), value_list being n bytes of the source
\* (src, idx); item assignment never changes len(data), and stops with
\* IndexError at the first index past the end
insert_data(b, offset, src, idx, n) ==
    LET end == Min(offset + n, BufLen(b))
        left == {[s EXCEPT !.hi = Min(s.hi, offset)] : s \in {t \in b : t.lo < offset}}
        right == {[s EXCEPT !.lo = Max(s.lo, end),
                            !.base = s.base + (Max(s.lo, end) - s.lo)] :
                     s \in {t \in b : t.hi > end}}
    IN  IF end <= offset THEN b
        ELSE left \cup right \cup
             {[lo |-> offset, hi |-> end, src |-> src, idx |-> idx, base |-> 0]}

(***************************************************************************)
(* Initial state: the module has been imported, no method has been called. *)
(***************************************************************************)
Init ==
    /\ reg = PhisonCmd
    /\ op = "none"
    /\ pc = "idle"
    /\ outcome = "none"
    /\ log = <<>>
    /\ img = 0
    /\ header = 0
    /\ body = 0
    /\ data_size = 0
    /\ address = 0
    /\ chunk_size = 0
    /\ ret = "return"
    /\ vinfo = NoInfo
    /\ mode = None
    /\ burner = FALSE
    /\ fw = 0
    /\ rfBase = 0 - 1
    /\ nops = 0
    /\ args = <<>>
    /\ result = <<>>
    /\ prev = "none"
    /\ buf = NoBuffer

\* the frame of a method is dropped when it returns or raises
DropLocals ==
    /\ data_size' = 0
    /\ address' = 0
    /\ chunk_size' = 0
    /\ ret' = "return"

KeepLocals == UNCHANGED <<img, header, body, data_size, address, chunk_size, ret>>

\* no call of transfer_data has been made in this method
NoTransfer ==
    /\ img' = 0
    /\ header' = 0
    /\ body' = 0

\* a caller invokes a method of PhisonDevice
Enter(name) ==
    /\ pc = "idle"
    /\ nops < MaxOps
    /\ nops' = nops + 1
    /\ op' = name
    /\ prev' = op
    /\ rfBase' = 0 - 1

\* the method takes no argument recorded in args, returns no value and has
\* no buffer
NoArgs == args' = <<>>
NoResult == result' = <<>>
NoData == buf' = NoBuffer

\* ... a method that runs in several steps
Begin(name) ==
    /\ Enter(name)
    /\ outcome' = "running"
    /\ log' = <<>>
    /\ vinfo' = NoInfo
    /\ mode' = None

\* the exception leaves every frame up to the caller of the method
Raise(exc) ==
    /\ pc' = "idle"
    /\ outcome' = exc
    /\ DropLocals
    /\ UNCHANGED <<img, header, body>>

\* the method invoked by the caller returns
Finish ==
    /\ pc' = "idle"
    /\ outcome' = "returned"
    /\ DropLocals
    /\ UNCHANGED <<img, header, body>>

(***************************************************************************)
(* transfer_data(data, header=0x03, body=0x02)                             *)
(***************************************************************************)
call_transfer_data ==
    \E n \in ImageLens, sel \in Selectors :
        /\ Begin("transfer_data")
        /\ pc' = "td_header"
        /\ img' = n
        /\ header' = sel[1]
        /\ body' = sel[2]
        /\ burner' = FALSE
        /\ fw' = 0
        /\ NoArgs /\ NoResult /\ NoData
        /\ UNCHANGED <<reg, data_size, address, chunk_size, ret>>

\* the header sent without the status query after it
transfer_data_header_no_status ==
    /\ pc = "td_header"
    /\ data_size' = img - RESERVED
    /\ reg' = PatchByte(reg, "LOAD_HEADER", 2, header)
    /\ log' = Append(log, Entry(reg', "LOAD_HEADER", Slice(img, 0, BLOCK), 0))
    /\ address' = 0
    /\ pc' = "td_loop"
    /\ UNCHANGED <<op, outcome, img, header, body, chunk_size, ret,
                   vinfo, mode, burner, fw, rfBase, nops, args, result, prev, buf>>

\* lines 173-177: data_size, patch and send the header
transfer_data_header ==
    /\ pc = "td_header"
    /\ data_size' = img - RESERVED
    /\ reg' = PatchByte(reg, "LOAD_HEADER", 2, header)
    /\ log' = Append(log, Entry(reg', "LOAD_HEADER", Slice(img, 0, BLOCK), 0))
    /\ pc' = "td_header_status"
    /\ UNCHANGED <<op, outcome, img, header, body, address, chunk_size, ret,
                   vinfo, mode, burner, fw, rfBase, nops, args, result, prev, buf>>

\* the status after the header, read but not tested
transfer_data_header_status_lax ==
    /\ pc = "td_header_status"
    /\ \E res \in StatusBytes :
        /\ log' = Append(log, Entry(reg, "GET_STATUS", <<>>, res))
        /\ address' = 0
        /\ pc' = "td_loop"
        /\ UNCHANGED <<outcome, img, header, body, data_size, chunk_size, ret>>
    /\ UNCHANGED <<reg, op, vinfo, mode, burner, fw, rfBase, nops, args, result, prev, buf>>

\* lines 180-185: the status after the header
transfer_data_header_status ==
    /\ pc = "td_header_status"
    /\ \E res \in StatusBytes :
        /\ log' = Append(log, Entry(reg, "GET_STATUS", <<>>, res))
        /\ IF res # HEADER_OK
           THEN Raise("HeaderRejected")
           ELSE /\ address' = 0
                /\ pc' = "td_loop"
                /\ UNCHANGED <<outcome, img, header, body, data_size,
                               chunk_size, ret>>
    /\ UNCHANGED <<reg, op, vinfo, mode, burner, fw, rfBase, nops, args, result, prev, buf>>

\* lines 186-197: the loop test and, inside the loop, one body chunk;
\* after the loop the function returns to its caller
transfer_data_loop ==
    /\ pc = "td_loop"
    /\ IF data_size > 0
       THEN LET cs == Min(data_size, CHUNK)
                r1 == PatchByte(reg, "LOAD_BODY", 2, body)
                r2 == PatchWord(r1, "LOAD_BODY", 3, address \div BLOCK)
                r3 == PatchWord(r2, "LOAD_BODY", 7, cs \div BLOCK)
            IN  /\ chunk_size' = cs
                /\ reg' = r3
                /\ log' = Append(log, Entry(r3, "LOAD_BODY",
                              Slice(img, address + BLOCK, address + BLOCK + cs), 0))
                /\ pc' = "td_body_status"
                /\ UNCHANGED <<outcome, img, header, body, data_size, address, ret>>
       ELSE /\ IF ret = "return"
               THEN Finish
               ELSE /\ pc' = ret
                    /\ DropLocals
                    /\ UNCHANGED <<outcome, img, header, body>>
            /\ UNCHANGED <<reg, log>>
    /\ UNCHANGED <<op, vinfo, mode, burner, fw, rfBase, nops, args, result, prev, buf>>

\* the status after a body chunk, read but not tested
transfer_data_body_status_lax ==
    /\ pc = "td_body_status"
    /\ \E res \in StatusBytes :
        /\ log' = Append(log, Entry(reg, "GET_STATUS", <<>>, res))
        /\ Raise("UnboundLocalError")
    /\ UNCHANGED <<reg, op, vinfo, mode, burner, fw, rfBase, nops, args, result, prev, buf>>

\* lines 200-205: the status after a body chunk; "size" is a local name that
\* is never bound, so "size -= chunk_size" raises UnboundLocalError
transfer_data_body_status ==
    /\ pc = "td_body_status"
    /\ \E res \in StatusBytes :
        /\ log' = Append(log, Entry(reg, "GET_STATUS", <<>>, res))
        /\ IF res # BODY_OK
           THEN Raise("BodyRejected")
           ELSE Raise("UnboundLocalError")
    /\ UNCHANGED <<reg, op, vinfo, mode, burner, fw, rfBase, nops, args, result, prev, buf>>

(***************************************************************************)
(* get_run_mode()                                                          *)
(***************************************************************************)
get_run_mode ==
    \E vi \in VendorInfos :
        /\ Enter("get_run_mode")
        /\ log' = <<Entry(reg, "GET_VENDOR_INFO", <<>>, 0)>>
        /\ vinfo' = vi
        /\ mode' = mode_from_vendor_info(vi)
        /\ burner' = FALSE
        /\ fw' = 0
        /\ pc' = "idle"
        /\ outcome' = "returned"
        /\ DropLocals
        /\ NoTransfer
        /\ NoArgs /\ NoResult /\ NoData
        /\ UNCHANGED reg

(***************************************************************************)
(* get_num_lbas().  Python integers do not wrap; an integer is kept here   *)
(* as its three base-65536 digits, lowest first, so that values of 2^32    *)
(* and more are represented.                                               *)
(***************************************************************************)
LIMB == 65536

\* a | b, bit by bit
RECURSIVE BitOr(_, _)
BitOr(a, b) ==
    IF a = 0 THEN b
    ELSE IF b = 0 THEN a
    ELSE (IF a % 2 = 1 \/ b % 2 = 1 THEN 1 ELSE 0) + 2 * BitOr(a \div 2, b \div 2)

\* (ret << 8) | i
ShiftOr(n, i) ==
    LET t0 == n[1] * 256
        t1 == n[2] * 256 + t0 \div LIMB
        t2 == n[3] * 256 + t1 \div LIMB
    IN  <<BitOr(t0 % LIMB, i), t1 % LIMB, t2 % LIMB>>

\* ret + 1 in a 32-bit register
BigInc_wrap32(n) ==
    LET t0 == n[1] + 1
        t1 == n[2] + t0 \div LIMB
    IN  <<t0 % LIMB, t1 % LIMB, n[3]>>

\* ret + 1
BigInc(n) ==
    LET t0 == n[1] + 1
        t1 == n[2] + t0 \div LIMB
        t2 == n[3] + t1 \div LIMB
    IN  <<t0 % LIMB, t1 % LIMB, t2>>

\* for i in res[:4]: ret = (ret << 8)|i
RECURSIVE CombineBytes(_, _)
CombineBytes(n, s) ==
    IF s = <<>> THEN n ELSE CombineBytes(ShiftOr(n, Head(s)), Tail(s))

get_num_lbas ==
    \E res \in LbaAnswers :
        /\ Enter("get_num_lbas")
        /\ log' = <<Entry(reg, "GET_NUM_LBAS", <<>>, res)>>
        /\ result' = BigInc(CombineBytes(<<0, 0, 0>>,
                                        SubSeq(res, 1, Min(4, Len(res)))))
        /\ vinfo' = NoInfo
        /\ mode' = None
        /\ burner' = FALSE
        /\ fw' = 0
        /\ pc' = "idle"
        /\ outcome' = "returned"
        /\ DropLocals
        /\ NoTransfer
        /\ NoArgs /\ NoData
        /\ UNCHANGED reg

(***************************************************************************)
(* send_firmware(firmware_filename, burner_filename=None)                  *)
(***************************************************************************)
call_send_firmware ==
    \E n \in FirmwareLens, b \in BOOLEAN :
        /\ Begin("send_firmware")
        /\ pc' = "sf_query"
        /\ fw' = n
        /\ burner' = b
        /\ NoTransfer
        /\ NoArgs /\ NoResult /\ NoData
        /\ UNCHANGED <<reg, data_size, address, chunk_size, ret>>

\* line 256: mode = self.get_run_mode()
send_firmware_query ==
    /\ pc = "sf_query"
    /\ \E vi \in QueryInfos :
        /\ vinfo' = vi
        /\ mode' = mode_from_vendor_info(vi)
    /\ log' = Append(log, Entry(reg, "GET_VENDOR_INFO", <<>>, 0))
    /\ pc' = "sf_branch"
    /\ KeepLocals
    /\ UNCHANGED <<reg, op, outcome, burner, fw, rfBase, nops, args, result, prev, buf>>

\* the branch with the jump to boot mode ahead of the test of the burner name
send_firmware_branch_jump_first ==
    /\ pc = "sf_branch"
    /\ IF mode # 1
       THEN /\ log' = IF mode # 0
                      THEN log \o <<Entry(reg, "JUMP_TO_BOOTMODE", <<>>, 0), Sleep>>
                      ELSE log
            /\ IF ~burner
               THEN Raise("BurnerImageRequired")
               ELSE /\ pc' = "ei_call"
                    /\ KeepLocals
                    /\ UNCHANGED outcome
            /\ UNCHANGED rfBase
       ELSE /\ pc' = "rf_start"
            /\ rfBase' = Len(log)
            /\ KeepLocals
            /\ UNCHANGED <<log, outcome>>
    /\ UNCHANGED <<reg, op, vinfo, mode, burner, fw, nops, args, result, prev, buf>>

\* lines 257-269, up to the call of execute_image or of _run_firmware
send_firmware_branch ==
    /\ pc = "sf_branch"
    /\ IF mode # 1
       THEN /\ IF ~burner
               THEN /\ Raise("BurnerImageRequired")
                    /\ UNCHANGED log
               ELSE /\ log' = IF mode # 0
                              THEN log \o <<Entry(reg, "JUMP_TO_BOOTMODE", <<>>, 0),
                                            Sleep>>
                              ELSE log
                    /\ pc' = "ei_call"
                    /\ KeepLocals
                    /\ UNCHANGED outcome
            /\ UNCHANGED rfBase
       ELSE /\ pc' = "rf_start"
            /\ rfBase' = Len(log)
            /\ KeepLocals
            /\ UNCHANGED <<log, outcome>>
    /\ UNCHANGED <<reg, op, vinfo, mode, burner, fw, nops, args, result, prev, buf>>

(***************************************************************************)
(* execute_image(filename): the method is declared without self, so the    *)
(* bound call self.execute_image(name) passes two arguments to a function  *)
(* of one and raises TypeError before the body runs (lines 238-247, where  *)
(* "self.jump_to_pram" moreover lacks the call parentheses, never execute). *)
(***************************************************************************)
call_execute_image ==
    /\ Begin("execute_image")
    /\ pc' = "ei_call"
    /\ burner' = FALSE
    /\ fw' = 0
    /\ NoTransfer
    /\ NoArgs /\ NoResult /\ NoData
    /\ UNCHANGED <<reg, data_size, address, chunk_size, ret>>

execute_image ==
    /\ pc = "ei_call"
    /\ Raise("TypeError")
    /\ UNCHANGED <<reg, op, log, vinfo, mode, burner, fw, rfBase, nops, args, result, prev, buf>>

(***************************************************************************)
(* _run_firmware(firmware_filename)                                        *)
(***************************************************************************)
\* the reboot without the wait after it
run_firmware_reboot_no_wait ==
    /\ pc = "rf_start"
    /\ log' = Append(log, Entry(reg, "JUMP_TO_BOOTMODE", <<>>, 0))
    /\ img' = fw
    /\ header' = 1
    /\ body' = 0
    /\ ret' = "rf_update1"
    /\ pc' = "td_header"
    /\ UNCHANGED <<reg, op, outcome, data_size, address, chunk_size, vinfo,
                   mode, burner, fw, rfBase, nops, args, result, prev, buf>>

\* lines 272-284: read the file, reboot, wait, call transfer_data(data, 1, 0)
run_firmware_reboot ==
    /\ pc = "rf_start"
    /\ log' = log \o <<Entry(reg, "JUMP_TO_BOOTMODE", <<>>, 0), Sleep>>
    /\ img' = fw
    /\ header' = 1
    /\ body' = 0
    /\ ret' = "rf_update1"
    /\ pc' = "td_header"
    /\ UNCHANGED <<reg, op, outcome, data_size, address, chunk_size, vinfo,
                   mode, burner, fw, rfBase, nops, args, result, prev, buf>>

\* line 285: PhisonCmd.FIRMWARE_UPDATE[0][2] = 0x01, an item assignment to a
\* tuple, raises TypeError.  Lines 286-310 (the four firmware-update
\* controls, the second transfer, the jump to PRAM and the final mode query)
\* are never executed and so have no actions.
run_firmware_update1 ==
    /\ pc = "rf_update1"
    /\ "FIRMWARE_UPDATE" \notin ListTemplates
    /\ Raise("TypeError")
    /\ UNCHANGED <<reg, log, op, vinfo, mode, burner, fw, rfBase, nops, args, result, prev, buf>>

(***************************************************************************)
(* Methods that dispatch one command.                                      *)
(***************************************************************************)
\* a method that patches the registry to r, dispatches the descriptor name
\* and returns
OneCommand(method, r, name) ==
    /\ Enter(method)
    /\ reg' = r
    /\ log' = <<Entry(r, name, <<>>, 0)>>
    /\ vinfo' = NoInfo
    /\ mode' = None
    /\ burner' = FALSE
    /\ fw' = 0
    /\ pc' = "idle"
    /\ outcome' = "returned"
    /\ DropLocals
    /\ NoTransfer
    /\ NoResult /\ NoData

\* read_nand with the expected length left in blocks
read_nand_length_in_blocks ==
    \E a \in WordArgs, c \in NandCounts :
        /\ OneCommand("read_nand",
                      PatchLen(PatchWord(PatchWord(reg, "READ_BODY", 3, a),
                                         "READ_BODY", 7, c),
                               "READ_BODY", c),
                      "READ_BODY")
        /\ args' = <<a, c>>

\* read_nand(address, count)
read_nand ==
    \E a \in WordArgs, c \in NandCounts :
        /\ OneCommand("read_nand",
                      PatchLen(PatchWord(PatchWord(reg, "READ_BODY", 3, a),
                                         "READ_BODY", 7, c),
                               "READ_BODY", c * BLOCK),
                      "READ_BODY")
        /\ args' = <<a, c>>

\* read_xram(address)
read_xram ==
    \E a \in WordArgs :
        /\ OneCommand("read_xram", PatchWord(reg, "READ_XRAM", 2, a), "READ_XRAM")
        /\ args' = <<a>>

\* write_xram with the value byte left as the template holds it
write_xram_value_unpatched ==
    \E a \in WordArgs, v \in ByteArgs :
        /\ OneCommand("write_xram", PatchWord(reg, "WRITE_XRAM", 2, a),
                      "WRITE_XRAM")
        /\ args' = <<a, v>>

\* write_xram(address, value)
write_xram ==
    \E a \in WordArgs, v \in ByteArgs :
        /\ OneCommand("write_xram",
                      PatchByte(PatchWord(reg, "WRITE_XRAM", 2, a),
                                "WRITE_XRAM", 4, v % 256),
                      "WRITE_XRAM")
        /\ args' = <<a, v>>

\* read_iram(address)
read_iram ==
    \E a \in ByteArgs :
        /\ OneCommand("read_iram", PatchByte(reg, "READ_IRAM", 2, a % 256),
                      "READ_IRAM")
        /\ args' = <<a>>

\* write_iram(address, value)
write_iram ==
    \E a \in ByteArgs, v \in ByteArgs :
        /\ OneCommand("write_iram",
                      PatchByte(PatchByte(reg, "WRITE_IRAM", 2, a % 256),
                                "WRITE_IRAM", 3, v % 256),
                      "WRITE_IRAM")
        /\ args' = <<a, v>>

\* dump_xram(): READ_XRAM is patched and dispatched for each address of
\* xrange(0xF000) in turn; every round overwrites the same two bytes, so the
\* registry is left as the last round patched it.  The log keeps the last
\* of the 0xF000 commands.
dump_xram ==
    /\ OneCommand("dump_xram", PatchWord(reg, "READ_XRAM", 2, XRAM_SIZE - 1),
                  "READ_XRAM")
    /\ NoArgs

(***************************************************************************)
(* dump_firmware(filename)                                                 *)
(***************************************************************************)
call_dump_firmware ==
    /\ Begin("dump_firmware")
    /\ pc' = "df_loop"
    /\ address' = 0
    /\ buf' = insert_data(bytearray(DUMP_SIZE), 0, "header", 0, Len(DUMP_HEADER))
    /\ burner' = FALSE
    /\ fw' = 0
    /\ NoTransfer
    /\ NoArgs /\ NoResult
    /\ UNCHANGED <<reg, data_size, chunk_size, ret>>

\* the length without the 0x400 kept for header and footer
DumpLength_unreserved(a, n) == Min(DUMP_STRIDE * BLOCK, n - a * BLOCK)

\* line 219: length = min(0x40*0x200, (len(data)-0x400)-(address*0x200))
DumpLength(a, n) == Min(DUMP_STRIDE * BLOCK, (n - 2 * BLOCK) - a * BLOCK)

\* the offset without the 0x200 of the header
DumpOffset_unshifted(a) == a * BLOCK

\* line 226: the offset 0x200+address*0x200 of the insertion
DumpOffset(a) == BLOCK + a * BLOCK

\* lines 218-235: the loop test, one round of the loop (the device answers
\* the read with as many bytes as were requested), and after the loop the
\* footer and the file
dump_firmware_loop ==
    /\ pc = "df_loop"
    /\ IF address * BLOCK < BufLen(buf)
       THEN LET length == DumpLength(address, BufLen(buf))
                temp == length \div BLOCK
                r == PatchLen(PatchWord(PatchWord(reg, "READ_BODY", 3, address),
                                        "READ_BODY", 7, temp),
                              "READ_BODY", length)
                n == Max(length, 0)
            IN  /\ reg' = r
                /\ log' = Append(log, Entry(r, "READ_BODY", <<>>, 0))
                /\ buf' = insert_data(buf, DumpOffset(address), "res",
                                       Len(log) + 1, n)
                /\ IF DumpOffset(address) + n > BufLen(buf)
                   THEN Raise("IndexError")
                   ELSE /\ address' = address + DUMP_STRIDE
                        /\ UNCHANGED <<pc, outcome, img, header, body, data_size,
                                       chunk_size, ret>>
       ELSE /\ buf' = insert_data(buf, BufLen(buf) - BLOCK, "footer", 0,
                                   Len(DUMP_FOOTER))
            /\ Finish
            /\ UNCHANGED <<reg, log>>
    /\ UNCHANGED <<op, vinfo, mode, burner, fw, rfBase, nops, args, result, prev>>

Next ==
    \/ call_transfer_data
    \/ transfer_data_header
    \/ transfer_data_header_status
    \/ transfer_data_loop
    \/ transfer_data_body_status
    \/ get_run_mode
    \/ get_num_lbas
    \/ call_send_firmware
    \/ send_firmware_query
    \/ send_firmware_branch
    \/ call_execute_image
    \/ execute_image
    \/ run_firmware_reboot
    \/ run_firmware_update1
    \/ read_nand
    \/ read_xram
    \/ write_xram
    \/ read_iram
    \/ write_iram
    \/ dump_xram
    \/ call_dump_firmware
    \/ dump_firmware_loop

Spec == Init /\ [][Next]_vars

(***************************************************************************)
(* The word codec on its own: word_to_data(PhisonCmd.<name>[0], X, V)      *)
(* followed by word_from_data(PhisonCmd.<name>[0], X), for every 16-bit V, *)
(* on a template as constructed and on one left patched by an earlier      *)
(* read_nand(0xFFFF, 0xFFFF).  args is <<name, X, V>>.                     *)
(***************************************************************************)
WordValues == 0..65535
CodecFields == {<<"READ_BODY", 3>>, <<"READ_BODY", 7>>}
CodecTemplates ==
    {PhisonCmd,
     PatchLen(PatchWord(PatchWord(PhisonCmd, "READ_BODY", 3, 65535),
                        "READ_BODY", 7, 65535),
              "READ_BODY", 65535 * BLOCK)}

InitCodec ==
    /\ reg \in CodecTemplates
    /\ args \in {<<f[1], f[2], v>> : f \in CodecFields, v \in WordValues}
    /\ op = "none"
    /\ pc = "codec"
    /\ outcome = "none"
    /\ log = <<>>
    /\ img = 0
    /\ header = 0
    /\ body = 0
    /\ data_size = 0
    /\ address = 0
    /\ chunk_size = 0
    /\ ret = "return"
    /\ vinfo = NoInfo
    /\ mode = None
    /\ burner = FALSE
    /\ fw = 0
    /\ rfBase = 0 - 1
    /\ nops = 0
    /\ result = <<>>
    /\ prev = "none"
    /\ buf = NoBuffer

codec_round_trip ==
    /\ pc = "codec"
    /\ pc' = "patched"
    /\ reg' = PatchWord(reg, args[1], args[2], args[3])
    /\ result' = <<word_from_data(reg'[args[1]].bytes, args[2])>>
    /\ UNCHANGED <<op, outcome, log, img, header, body, data_size, address,
                   chunk_size, ret, vinfo, mode, burner, fw, rfBase, nops,
                   args, prev, buf>>

NextCodec == codec_round_trip

SpecCodec == InitCodec /\ [][NextCodec]_vars

(***************************************************************************)
(* Properties.                                                             *)
(***************************************************************************)
\* the method invoked last has returned or raised
Finished == pc = "idle" /\ outcome \notin {"none", "running"}

Names(l) == [i \in 1..Len(l) |-> l[i].name]

\* positions of the log at which the descriptor name was dispatched
Idx(name) == {i \in 1..Len(log) : log[i].name = name}

\* status queries: the positions that follow a header load, a body load
HeaderStatusIdx ==
    {i \in 2..Len(log) : log[i].name = "GET_STATUS" /\ log[i-1].name = "LOAD_HEADER"}
BodyStatusIdx ==
    {i \in 2..Len(log) : log[i].name = "GET_STATUS" /\ log[i-1].name = "LOAD_BODY"}

\* every status answered so far accepted its stage
Accepted ==
    /\ \A i \in HeaderStatusIdx : log[i].res = 85
    /\ \A i \in BodyStatusIdx : log[i].res = 165

CeilDiv(a, b) == (a + b - 1) \div b

\* block address and block count carried by a dispatched body command
AddrOf(e) == e.cmd[4] * 256 + e.cmd[5]
CountOf(e) == e.cmd[8] * 256 + e.cmd[9]

RECURSIVE BodyBlocks(_)
BodyBlocks(l) ==
    IF l = <<>> THEN 0
    ELSE (IF Head(l).name = "LOAD_BODY" THEN CountOf(Head(l)) ELSE 0)
         + BodyBlocks(Tail(l))

\* C1: transfer_data on an image of 1024 + B bytes, B > 0 a multiple of 512,
\* every status accepted, has issued when it ends exactly one header load and
\* ceil(B / 0x8000) body loads, with strictly increasing block addresses,
\* disjoint block ranges, and block counts that sum to B / 512.
C1_AllBodyChunksIssued ==
    LET B == img - 1024
    IN  (op = "transfer_data" /\ Finished /\ Accepted /\ B > 0 /\ B % 512 = 0) =>
            /\ Cardinality(Idx("LOAD_HEADER")) = 1
            /\ Cardinality(Idx("LOAD_BODY")) = CeilDiv(B, 32768)
            /\ \A i, j \in Idx("LOAD_BODY") :
                   i < j => /\ AddrOf(log[i]) < AddrOf(log[j])
                            /\ AddrOf(log[i]) + CountOf(log[i]) <= AddrOf(log[j])
            /\ BodyBlocks(log) = B \div 512

\* C2: transfer_data ends in one of three ways only: it returns, or raises
\* HeaderRejected, or raises BodyRejected; when every status is accepted it
\* returns normally.
C2_ThreeOutcomes ==
    op = "transfer_data" =>
        /\ outcome \in {"running", "returned", "HeaderRejected", "BodyRejected"}
        /\ (Finished /\ Accepted) => outcome = "returned"

\* the part of the log that _run_firmware dispatched
InstallLog == IF rfBase < 0 THEN <<>> ELSE SubSeq(log, rfBase + 1, Len(log))

IsStage(e) == e.name \in {"JUMP_TO_BOOTMODE", "LOAD_HEADER", "FIRMWARE_UPDATE",
                          "JUMP_TO_PRAM", "GET_VENDOR_INFO"}

\* the stages of a log: the command and its two selector bytes
Stages(l) ==
    LET s == SelectSeq(l, IsStage)
    IN  [i \in 1..Len(s) |-> <<s[i].name, s[i].cmd[3], s[i].cmd[4]>>]

InstallOrder ==
    << <<"JUMP_TO_BOOTMODE", 0, 0>>, <<"LOAD_HEADER", 1, 0>>,
       <<"FIRMWARE_UPDATE", 1, 0>>, <<"LOAD_HEADER", 3, 0>>,
       <<"FIRMWARE_UPDATE", 1, 1>>, <<"FIRMWARE_UPDATE", 0, 0>>,
       <<"FIRMWARE_UPDATE", 0, 1>>, <<"JUMP_TO_PRAM", 0, 0>>,
       <<"GET_VENDOR_INFO", 0, 0>> >>

\* C3: when no stage is rejected, the install sequence has dispatched, when it
\* ends, exactly: jump-to-bootmode, transfer (0x01, 0x00), update (0x01,0x00),
\* transfer (0x03, 0x02), update (0x01,0x01), update (0x00,0x00),
\* update (0x00,0x01), jump-to-loaded-code, identity query, in this order.
C3_InstallSequenceOrder ==
    (op = "send_firmware" /\ rfBase >= 0 /\ Finished /\ Accepted) =>
        /\ Stages(InstallLog) = InstallOrder
        /\ \A i \in 1..Len(InstallLog) :
               InstallLog[i].name = "LOAD_BODY" =>
                   InstallLog[i].cmd[3] =
                       (IF \E j \in 1..i : /\ InstallLog[j].name = "LOAD_HEADER"
                                            /\ InstallLog[j].cmd[3] = 3
                        THEN 2 ELSE 0)

\* C4: send_firmware with mode Burner, or with a burner path, always starts
\* the install sequence: directly after the identity query when the mode is
\* Burner; after execute_image with no jump-to-bootmode before it when the
\* mode is BootMode; after jump-to-bootmode, the settle delay and
\* execute_image for any other mode.
C4_BranchThenInstall ==
    (op = "send_firmware" /\ Finished /\ Accepted /\ (mode = 1 \/ burner)) =>
        /\ rfBase >= 1
        /\ log[1].name = "GET_VENDOR_INFO"
        /\ mode = 1 => rfBase = 1
        /\ mode = 0 => (rfBase > 1 /\ log[2].name = "LOAD_HEADER")
        /\ mode \notin {0, 1} =>
               /\ rfBase > 3
               /\ log[2].name = "JUMP_TO_BOOTMODE"
               /\ log[3] = Sleep
               /\ log[4].name = "LOAD_HEADER"

\* C5: send_firmware without a burner path, the queried mode not being
\* Burner, fails with BurnerImageRequired, and the identity query is the only
\* command it has dispatched.
C5_BurnerImageRequired ==
    /\ (op = "send_firmware" /\ pc # "sf_query" /\ ~burner /\ mode # 1) =>
           /\ Names(log) = <<"GET_VENDOR_INFO">>
           /\ pc \in {"sf_branch", "idle"}
           /\ pc = "idle" => outcome = "BurnerImageRequired"
    /\ outcome = "BurnerImageRequired" =>
           (op = "send_firmware" /\ ~burner /\ mode # 1)

C5_Witness ==
    /\ op = "send_firmware"
    /\ outcome = "BurnerImageRequired"
    /\ mode = 3
    /\ Len(log) = 1

\* C6: execute_image, its transfer not rejected, has dispatched when it ends
\* exactly one jump-to-loaded-code, after the last status query and directly
\* before the settle delay.
C6_ExecuteImageJumps ==
    (op = "execute_image" /\ Finished /\ Accepted) =>
        /\ Cardinality(Idx("JUMP_TO_PRAM")) = 1
        /\ \A i \in Idx("JUMP_TO_PRAM") :
               /\ \A j \in Idx("GET_STATUS") : j < i
               /\ i < Len(log)
               /\ log[i + 1] = Sleep

\* C7: a status after the header load whose byte 0 is not 0x55 ends the
\* method with HeaderRejected, and is the last command dispatched: no body
\* load and no other command follows it.
C7_HeaderRejected ==
    /\ \A i \in HeaderStatusIdx :
           log[i].res # 85 =>
               (i = Len(log) /\ pc = "idle" /\ outcome = "HeaderRejected")
    /\ outcome = "HeaderRejected" =>
           (Len(log) \in HeaderStatusIdx /\ log[Len(log)].res # 85)

C7_Witness ==
    /\ op = "transfer_data"
    /\ img > 1024
    /\ outcome = "HeaderRejected"
    /\ log[Len(log)].res = 165

\* C8: a status after a body load whose byte 0 is not 0xA5 ends the method
\* with BodyRejected, and is the last command dispatched: the chunk is not
\* sent again, no later chunk, no firmware-update control and no jump follow.
C8_BodyRejected ==
    /\ \A i \in BodyStatusIdx :
           log[i].res # 165 =>
               (i = Len(log) /\ pc = "idle" /\ outcome = "BodyRejected")
    /\ outcome = "BodyRejected" =>
           (Len(log) \in BodyStatusIdx /\ log[Len(log)].res # 165)

C8_Witness ==
    /\ op = "send_firmware"
    /\ rfBase >= 0
    /\ outcome = "BodyRejected"
    /\ Idx("LOAD_BODY") # {}
    /\ Idx("FIRMWARE_UPDATE") = {}

\* C9 as stated: every descriptor keeps its initial bytes and length.
C9_RegistryNeverMutated == reg = PhisonCmd

\* the 0-based offsets that the methods patch
ParameterFields(n) ==
    CASE n = "LOAD_HEADER" -> {2}
      [] n = "LOAD_BODY" -> {2, 3, 4, 7, 8}
      [] n = "READ_BODY" -> {3, 4, 7, 8}
      [] n = "READ_XRAM" -> {2, 3}
      [] n = "WRITE_XRAM" -> {2, 3, 4}
      [] n = "READ_IRAM" -> {2}
      [] n = "WRITE_IRAM" -> {2, 3}
      [] OTHER -> {}

\* C9, amended: the methods patch the registry entries in place, and only
\* in their parameter fields; every other byte of every descriptor, the
\* length of every template and every expected length but READ_BODY's keep
\* their initial values.
C9_OnlyParameterFieldsMutated ==
    \A n \in CmdNames :
        /\ Len(reg[n].bytes) = Len(PhisonCmd[n].bytes)
        /\ \A i \in 1..Len(PhisonCmd[n].bytes) :
               reg[n].bytes[i] # PhisonCmd[n].bytes[i] => (i - 1) \in ParameterFields(n)
        /\ n # "READ_BODY" => reg[n].len = PhisonCmd[n].len

C9_Witness ==
    /\ Finished
    /\ op = "read_xram"
    /\ reg["READ_XRAM"].bytes # READ_XRAM.bytes
    /\ reg["LOAD_BODY"].bytes # LOAD_BODY.bytes

\* a vendor info has been read and the mode derived from it
ModeKnown ==
    \/ op = "get_run_mode" /\ pc = "idle"
    \/ op = "send_firmware" /\ pc # "sf_query"

\* the decision table of the mode tags
TableMode(tag) ==
    CASE tag = <<32, 80, 82, 65, 77, 32, 32, 32>> -> 0
      [] tag = <<32, 70, 87, 32, 66, 85, 82, 78>> -> 1
      [] tag = <<32, 72, 86, 32, 84, 69, 83, 84>> -> 2
      [] OTHER -> 3

\* C10 as stated: the table with the marker present, Firmware(3) without it.
C10_ModeWithFirmwareFallback ==
    ModeKnown => mode = (IF vinfo.marker = <<86, 82>> THEN TableMode(vinfo.tag) ELSE 3)

\* C10, amended: with the VR marker present the mode is BootMode(0) for
\* " PRAM   ", Burner(1) for " FW BURN", HardwareVerify(2) for " HV TEST" and
\* Firmware(3) for any other tag; with the marker absent the result is the
\* undefined mode (None) whatever the tag, which is none of 0..3.
C10_ModeDerivation ==
    ModeKnown =>
        /\ mode = (IF vinfo.marker = <<86, 82>> THEN TableMode(vinfo.tag) ELSE None)
        /\ vinfo.marker # <<86, 82>> => mode \notin 0..3

C10_Witness ==
    /\ op = "get_run_mode"
    /\ Finished
    /\ vinfo.marker = <<86, 0>>
    /\ vinfo.tag = <<32, 70, 87, 32, 66, 85, 82, 78>>
    /\ mode = None

\* the byte at index i of a buffer; a byte of an answer of the device, which
\* can be any byte, is shown as -1
ByteAt(b, i) ==
    LET s == CHOOSE t \in b : t.lo <= i /\ i < t.hi
        k == i - s.lo + s.base + 1
    IN  CASE s.src = "zero" -> 0
          [] s.src = "header" -> DUMP_HEADER[k]
          [] s.src = "footer" -> DUMP_FOOTER[k]
          [] OTHER -> 0 - 1

\* the segments are disjoint and cover the buffer
WellFormed(b) ==
    /\ \A s \in b : 0 <= s.lo /\ s.lo < s.hi
    /\ \A s, t \in b : s # t => (s.hi <= t.lo \/ t.hi <= s.lo)
    /\ \A s \in b : s.lo = 0 \/ \E t \in b : t.hi = s.lo

\* C11: dump_firmware keeps a buffer of exactly 0x32400 bytes; its first 20
\* bytes are the magic header from the start to the end of the method,
\* whatever the device answers; when the method ends, the 24 bytes at
\* 0x32200 are the magic trailer.
C11_DumpLayout ==
    op = "dump_firmware" =>
        /\ outcome \in {"running", "returned"}
        /\ WellFormed(buf)
        /\ BufLen(buf) = 205824
        /\ [i \in 1..20 |-> ByteAt(buf, i - 1)] =
               <<66, 116, 80, 114, 97, 109, 67, 100, 0, 0, 0, 0, 0, 0, 0, 0,
                 20, 16, 11, 24>>
        /\ Finished =>
               [i \in 1..24 |-> ByteAt(buf, 205312 + i - 1)] =
                   <<116, 104, 105, 115, 32, 105, 115, 32, 109, 112, 32, 109,
                     97, 114, 107, 0, 3, 1, 0, 16, 1, 4, 16, 66>>

C11_Witness ==
    /\ op = "dump_firmware"
    /\ Finished
    /\ outcome = "returned"
    /\ \E s \in buf : s.src = "res" /\ s.lo = 512
    /\ \E s \in buf : s.src = "res" /\ s.hi = 205312

\* C13: every body-read command dispatched by read_nand or dump_firmware,
\* after whatever call came before, has an expected length of 512 times the
\* block count in its bytes 7-8 and the block address of the current call in
\* its bytes 3-4, the arguments of read_nand being 16-bit values;
\* read_nand(address, count) then requests count*512 bytes.
C13_BodyReadLength ==
    \A i \in Idx("READ_BODY") :
        /\ op \in {"read_nand", "dump_firmware"}
        /\ op = "dump_firmware" =>
               /\ log[i].len = 512 * CountOf(log[i])
               /\ AddrOf(log[i]) = 64 * (i - 1)
        /\ (op = "read_nand" /\ args[1] \in 0..65535 /\ args[2] \in 0..65535) =>
               /\ log[i].len = 512 * CountOf(log[i])
               /\ AddrOf(log[i]) = args[1]
               /\ log[i].len = args[2] * 512

C13_Witness ==
    /\ prev = "dump_firmware"
    /\ op = "read_nand"
    /\ Finished
    /\ args = <<4660, 65535>>
    /\ log[1].len = 33553920

\* C14: get_num_lbas returns the first four bytes of the answer combined
\* big-endian, plus one, without wrapping: 0xFFFFFFFF gives 0x100000000; the
\* bytes after the fourth play no part.  The value is given by its base-65536
\* digits, lowest first.
C14_NumLbas ==
    (op = "get_num_lbas" /\ Finished) =>
        LET r == log[1].res
            lo == r[3] * 256 + r[4] + 1
            hi == r[1] * 256 + r[2] + lo \div 65536
        IN  /\ outcome = "returned"
            /\ result = <<lo % 65536, hi % 65536, hi \div 65536>>
            /\ (r[1] = 255 /\ r[2] = 255 /\ r[3] = 255 /\ r[4] = 255) =>
                   result = <<0, 0, 1>>

C14_Witness ==
    /\ op = "get_num_lbas"
    /\ Finished
    /\ SubSeq(log[1].res, 1, 4) = <<255, 255, 255, 255>>
    /\ log[1].res[5] = 255
    /\ result = <<0, 0, 1>>

\* C15: dump_firmware reads at block addresses 0, 0x40, 0x80, ...; every
\* read asks for a positive length of at most 0x40 blocks; each read starts
\* where the one before ended; each answer is inserted at
\* 0x200 + address*0x200; the loop counter only advances, over at most seven
\* rounds, and the method ends by returning, the reads then covering
\* exactly the 0x190 blocks (0x32000 bytes) of the body.
C15_DumpReads ==
    op = "dump_firmware" =>
        /\ \A i \in 1..Len(log) :
               /\ log[i].name = "READ_BODY"
               /\ AddrOf(log[i]) = 64 * (i - 1)
               /\ log[i].len > 0
               /\ log[i].len <= 32768
               /\ log[i].len = 512 * CountOf(log[i])
               /\ i > 1 => AddrOf(log[i]) = AddrOf(log[i-1]) + CountOf(log[i-1])
               /\ [lo |-> 512 + AddrOf(log[i]) * 512,
                   hi |-> 512 + AddrOf(log[i]) * 512 + log[i].len,
                   src |-> "res", idx |-> i, base |-> 0] \in buf
        /\ pc = "df_loop" => (address = 64 * Len(log) /\ Len(log) <= 7)
        /\ pc # "df_loop" =>
               /\ Finished
               /\ outcome = "returned"
               /\ Len(log) = 7
               /\ AddrOf(log[7]) + CountOf(log[7]) = 400

C15_Witness ==
    /\ op = "dump_firmware"
    /\ Finished
    /\ Len(log) = 7
    /\ AddrOf(log[7]) = 384
    /\ log[7].len = 8192

\* C12: word_to_data at offset X with a value V of 0..0xFFFF, then
\* word_from_data at X, gives V back, and the patch changes the bytes X and
\* X+1 of the patched template and nothing else.
C12_WordRoundTrip ==
    [][codec_round_trip =>
          LET name == args[1]
              X == args[2]
              V == args[3]
          IN  /\ result' = <<V>>
              /\ \A n \in CmdNames \ {name} : reg'[n] = reg[n]
              /\ reg'[name].len = reg[name].len
              /\ Len(reg'[name].bytes) = Len(reg[name].bytes)
              /\ \A o \in 0..(Len(reg[name].bytes) - 1) :
                     o \notin {X, X + 1} =>
                         reg'[name].bytes[o + 1] = reg[name].bytes[o + 1]]_vars

C12_Witness ==
    /\ pc = "patched"
    /\ args = <<"READ_BODY", 7, 4660>>
    /\ result = <<4660>>
    /\ reg["READ_BODY"].bytes[8] = 18
    /\ reg["READ_BODY"].bytes[9] = 52
    /\ reg["READ_BODY"].bytes[4] = 255

\* C16: in send_firmware, every jump to boot mode, jump to the loaded code
\* and firmware-update control is followed at once by the wait of 2000 ms:
\* the entry after it in the trace of the call is that wait, never a command.
C16_ResetThenWait ==
    op = "send_firmware" =>
        \A i \in 1..Len(log) :
            log[i].name \in {"JUMP_TO_BOOTMODE", "JUMP_TO_PRAM", "FIRMWARE_UPDATE"} =>
                /\ pc = "idle" \/ i < Len(log)
                /\ i < Len(log) =>
                       (log[i+1].name = "sleep" /\ log[i+1].len = 2000)

C16_Witness ==
    /\ op = "send_firmware"
    /\ \E i \in 1..Len(log) :
           /\ i + 2 <= Len(log)
           /\ log[i].name = "JUMP_TO_BOOTMODE"
           /\ log[i+1].name = "sleep"
           /\ log[i+2].name = "LOAD_HEADER"

\* the load commands
IsLoad(e) == e.name \in {"LOAD_HEADER", "LOAD_BODY"}

\* C17: in transfer_data the first command is the header load; every load
\* is followed at once by one status query and then by something that is
\* not a status query; no load follows a load; every body load comes after
\* a header status of 0x55.
C17_HandshakeAlternation ==
    /\ (op = "transfer_data" /\ log # <<>>) => log[1].name = "LOAD_HEADER"
    /\ \A i \in 1..Len(log) :
           /\ IsLoad(log[i]) =>
                  /\ i = Len(log) => pc \in {"td_header_status", "td_body_status"}
                  /\ i < Len(log) => log[i+1].name = "GET_STATUS"
                  /\ i + 1 < Len(log) => log[i+2].name # "GET_STATUS"
           /\ log[i].name = "GET_STATUS" => (i > 1 /\ IsLoad(log[i-1]))
           /\ log[i].name = "LOAD_BODY" =>
                  \E j \in 2..(i - 1) :
                      /\ log[j-1].name = "LOAD_HEADER"
                      /\ log[j].name = "GET_STATUS"
                      /\ log[j].res = 85

C17_Witness ==
    /\ op = "transfer_data"
    /\ Names(log) = <<"LOAD_HEADER", "GET_STATUS", "LOAD_BODY", "GET_STATUS">>
    /\ log[2].res = 85

\* C18: for every image length and every body load of transfer_data, the
\* block count in bytes 7-8 times 512 is the length of the payload, the block
\* address in bytes 3-4 times 512 is the offset of the payload in the body
\* (image offset minus 0x200), and the payload ends before the last 512
\* bytes of the image.
C18_BodyLoadGeometry ==
    \A i \in Idx("LOAD_BODY") :
        /\ CountOf(log[i]) * 512 = log[i].out[2] - log[i].out[1]
        /\ AddrOf(log[i]) * 512 = log[i].out[1] - 512
        /\ log[i].out[2] <= img - 512

\* the template name as constructed, with the bytes at the offsets of f
\* replaced by the values of f
WithBytes(name, f) ==
    [i \in 1..Len(PhisonCmd[name].bytes) |->
        IF (i - 1) \in DOMAIN f THEN f[i - 1] ELSE PhisonCmd[name].bytes[i]]

Hi(v) == (v \div 256) % 256
Lo(v) == v % 256

\* C19: what a parameterized operation dispatches is a function of the
\* arguments of the current call alone, whatever calls came before: the
\* template as constructed with the fields of the call written into it.
C19_NoStaleField ==
    \A i \in 1..Len(log) :
        LET e == log[i] IN
        /\ op = "read_xram" =>
               /\ e.cmd = WithBytes("READ_XRAM", 2 :> Hi(args[1]) @@ 3 :> Lo(args[1]))
               /\ e.len = 1
        /\ op = "write_xram" =>
               /\ e.cmd = WithBytes("WRITE_XRAM", 2 :> Hi(args[1]) @@ 3 :> Lo(args[1])
                                                  @@ 4 :> Lo(args[2]))
               /\ e.len = 1
        /\ op = "read_iram" =>
               /\ e.cmd = WithBytes("READ_IRAM", 2 :> Lo(args[1]))
               /\ e.len = 1
        /\ op = "write_iram" =>
               /\ e.cmd = WithBytes("WRITE_IRAM", 2 :> Lo(args[1]) @@ 3 :> Lo(args[2]))
               /\ e.len = 1
        /\ op = "read_nand" =>
               /\ e.cmd = WithBytes("READ_BODY", 3 :> Hi(args[1]) @@ 4 :> Lo(args[1])
                                                 @@ 7 :> Hi(args[2]) @@ 8 :> Lo(args[2]))
               /\ e.len = args[2] * 512
        /\ op = "dump_firmware" =>
               LET a == 64 * (i - 1)
                   c == IF 400 - a < 64 THEN 400 - a ELSE 64
               IN  /\ e.cmd = WithBytes("READ_BODY", 3 :> Hi(a) @@ 4 :> Lo(a)
                                                     @@ 7 :> Hi(c) @@ 8 :> Lo(c))
                   /\ e.len = c * 512
        /\ e.name = "LOAD_HEADER" =>
               /\ e.cmd = WithBytes("LOAD_HEADER", 2 :> header)
               /\ e.len = PhisonCmd["LOAD_HEADER"].len
        /\ e.name = "LOAD_BODY" =>
               LET a == (e.out[1] - 512) \div 512
                   n == IF img - 1024 < 32768 THEN img - 1024 ELSE 32768
               IN  /\ e.out[1] = 512
                   /\ e.cmd = WithBytes("LOAD_BODY", 2 :> body @@ 3 :> Hi(a) @@ 4 :> Lo(a)
                                         @@ 7 :> Hi(n \div 512) @@ 8 :> Lo(n \div 512))
                   /\ e.len = PhisonCmd["LOAD_BODY"].len

C19_Witness ==
    /\ nops = 2
    /\ prev = "read_nand"
    /\ op = "dump_firmware"
    /\ Finished
    /\ Len(log) = 7
    /\ log[7].len = 8192
    /\ CountOf(log[7]) = 16
====
